---- MODULE Spec2Model ----
(***************************************************************************)
(* The Changelly user-stream connection supervisor                         *)
(* (ChangellyAPIUserStreamDataSource.listen_for_user_stream), its message  *)
(* router (_process_ws_messages, _handle_spot_order, _handle_spot_balance) *)
(* and the environment it talks to: the websocket assistant (transport     *)
(* handle), the clock, the peer, and the task that may cancel it.          *)
(*                                                                         *)
(* One action is one atomic stretch of the coroutine between two await     *)
(* points, together with the outcome of the await that ended it.           *)
(*                                                                         *)
(* The signer (ChangellyAuth) is modelled by operators; the login message  *)
(* is built by the supervisor, REST requests are signed under SignSpec.    *)
(***************************************************************************)
EXTENDS Integers, Sequences, FiniteSets, TLC

(***************************************************************************)
(* Program constants.                                                      *)
(***************************************************************************)
\* CONSTANTS.WS_HEARTBEAT_TIME_INTERVAL, seconds (HEARTBEAT_TIME_INTERVAL = 30.0)
HEARTBEAT_TIME_INTERVAL == 30
\* the argument of self._sleep(5) in the finally block, seconds
RECONNECT_DELAY == 5
\* self._last_recv_time = 0.0 in __init__
INITIAL_LAST_RECV_TIME == 0

(***************************************************************************)
(* Bounds of the model.                                                    *)
(***************************************************************************)
\* the clock reading at construction (epoch seconds, positive)
StartTime == 1
\* clock readings later than MaxTime are not distinguished from MaxTime
MaxTime == 31
\* frames the peer delivers in one behaviour
MaxFrames == 2
\* elements in the params list of one frame
MaxParams == 2
\* configured trading pairs
MaxPairs == 1
\* the connect-attempt counter saturates here
MaxAttempts == 2

\* the clock advances in steps of this many seconds
TickStep == HEARTBEAT_TIME_INTERVAL \div 2

None == "None"
Handle == "ws1"

Min(a, b) == IF a < b THEN a ELSE b
Max(a, b) == IF a > b THEN a ELSE b

(***************************************************************************)
(* Frames.  ws_response.data is a dict: a function whose domain is the set *)
(* of fields present.                                                      *)
(***************************************************************************)
Payloads == {"A", "B", "X"}
\* payloads the normalizer rejects
Malformed == {"X"}

\* a params list: up to MaxParams payloads, no payload twice
ParamLists ==
    {p \in UNION {[1..n -> Payloads] : n \in 0..Min(MaxParams, Cardinality(Payloads))} :
        \A i, j \in DOMAIN p : p[i] = p[j] => i = j}

Methods == {"spot_order", "spot_orders", "spot_balance", "unknown"}

Frames ==
    {[method |-> m, params |-> p] : m \in Methods, p \in ParamLists}
    \cup {[method |-> m] : m \in Methods}
    \cup {[params |-> p] : p \in ParamLists}
    \cup {[result |-> TRUE]}

AllPairs == <<"BTC-USDT", "ETH-USDT", "LTC-USDT">>

(***************************************************************************)
(* Normalizers.  The source leaves both conversions as stubs; they are     *)
(* modelled by their contract: one internal event per payload, or a        *)
(* MalformedPayload failure.                                               *)
(***************************************************************************)
convert_to_internal_order_format(order) ==
    IF order \in Malformed
    THEN [type |-> "MalformedPayload", payload |-> order]
    ELSE [type |-> "OrderEvent", payload |-> order]

convert_to_internal_balance_format(balance) ==
    IF balance \in Malformed
    THEN [type |-> "MalformedPayload", payload |-> balance]
    ELSE [type |-> "BalanceEvent", payload |-> balance]

Failed(event) == event.type = "MalformedPayload"

(***************************************************************************)
(* The handlers: a for loop over the payload list, converting and pushing  *)
(* each element; an exception of the conversion leaves the loop.  The      *)
(* result is the queue content and whether the handler returned normally.  *)
(***************************************************************************)
RECURSIVE handle_spot_order(_, _)
handle_spot_order(data, output_queue) ==
    IF data = <<>>
    THEN [queue |-> output_queue, ok |-> TRUE]
    ELSE LET internal_order_update == convert_to_internal_order_format(Head(data))
         IN  IF Failed(internal_order_update)
             THEN [queue |-> output_queue, ok |-> FALSE]
             ELSE handle_spot_order(Tail(data), Append(output_queue, internal_order_update))

RECURSIVE handle_spot_balance(_, _)
handle_spot_balance(data, output_queue) ==
    IF data = <<>>
    THEN [queue |-> output_queue, ok |-> TRUE]
    ELSE LET internal_balance_update == convert_to_internal_balance_format(Head(data))
         IN  IF Failed(internal_balance_update)
             THEN [queue |-> output_queue, ok |-> FALSE]
             ELSE handle_spot_balance(Tail(data), Append(output_queue, internal_balance_update))

(***************************************************************************)
(* The body of the async-for loop of _process_ws_messages for one frame.   *)
(* data["params"] raises KeyError when the field is absent.                *)
(***************************************************************************)
process_ws_message(data, output_queue) ==
    IF "method" \in DOMAIN data
    THEN IF "params" \notin DOMAIN data
         THEN [queue |-> output_queue, ok |-> FALSE]
         ELSE IF data.method = "spot_order" \/ data.method = "spot_orders"
              THEN handle_spot_order(data.params, output_queue)
              ELSE IF data.method = "spot_balance"
                   THEN handle_spot_balance(data.params, output_queue)
                   ELSE [queue |-> output_queue, ok |-> TRUE]
    ELSE [queue |-> output_queue, ok |-> TRUE]

(***************************************************************************)
(* _subscribe_channels: one spot_subscribe request per trading pair.       *)
(* listen_for_user_stream never calls it.                                  *)
(***************************************************************************)
subscribe_channels(pairs) == [i \in 1..Len(pairs) |-> "spot_subscribe"]

(***************************************************************************)
(* The signer, ChangellyAuth.  A string is a sequence of one-character     *)
(* strings, so that concatenation is \o and two strings are equal exactly  *)
(* when they read the same.                                                *)
(***************************************************************************)
\* longest method, path, query or body drawn for a request
MaxField == 2

Alphabet == {"a", "b"}

RECURSIVE StringsUpTo(_)
StringsUpTo(n) ==
    IF n = 0 THEN {<<>>}
    ELSE LET shorter == StringsUpTo(n - 1)
         IN  shorter \cup {Append(s, c) : s \in {x \in shorter : Len(x) = n - 1},
                                          c \in Alphabet}

\* the non-empty strings a request field is drawn from
FieldValues == StringsUpTo(MaxField) \ {<<>>}

\* self.api_key, self.secret_key
api_key == <<"k", "1">>
secret_key == <<"s", "1">>

\* window = 10000 in ws_authenticate
WINDOW == 10000

\* str(n) for a natural number n: its decimal digits
RECURSIVE str(_)
str(n) ==
    LET digit == <<"0", "1", "2", "3", "4", "5", "6", "7", "8", "9">>[(n % 10) + 1]
    IN  IF n < 10 THEN <<digit>> ELSE Append(str(n \div 10), digit)

\* sep.join(parts)
RECURSIVE join(_, _)
join(sep, parts) ==
    IF parts = <<>> THEN <<>>
    ELSE IF Len(parts) = 1 THEN parts[1]
    ELSE parts[1] \o sep \o join(sep, Tail(parts))

(***************************************************************************)
(* hmac.new(key, msg, hashlib.sha256).hexdigest(), idealised: a string     *)
(* that determines the key and the message (no collisions).  The brackets  *)
(* and the comma occur in no key and in no message.                        *)
(***************************************************************************)
hmac_hexdigest(key, msg) == <<"hmac(">> \o key \o <<",">> \o msg \o <<")">>

\* b64encode(s.encode("utf8")).decode("utf8"): an encoding that can be decoded
b64encode(s) == <<"b64(">> \o s \o <<")">>

(***************************************************************************)
(* urlsplit(url), for a url given from its path on: the path is what       *)
(* precedes the first "?", the query what follows it.                      *)
(***************************************************************************)
urlsplit(url) ==
    LET marks == {i \in 1..Len(url) : url[i] = "?"}
    IN  IF marks = {} THEN [path |-> url, query |-> <<>>]
        ELSE LET first == CHOOSE i \in marks : \A j \in marks : i <= j
             IN  [path |-> SubSeq(url, 1, first - 1),
                  query |-> SubSeq(url, first + 1, Len(url))]

\* as _generate_signature, signing the first part of the message only
generate_signature_FirstPart(message) == hmac_hexdigest(secret_key, message[1])

\* _generate_signature
generate_signature(message) == hmac_hexdigest(secret_key, join(<<>>, message))

\* as header_for_authentication, with the query appended without its "?"
header_for_authentication_NoMark(request, time) ==
    LET url == urlsplit(request.url)
        timestamp == str(time * 1000)
        message == <<request.method, url.path>>
                   \o (IF url.query # <<>> THEN <<url.query>> ELSE <<>>)
                   \o (IF request.data # <<>> THEN <<request.data>> ELSE <<>>)
                   \o <<timestamp>>
        signature == generate_signature(message)
        data == <<api_key, signature, timestamp>>
    IN  "Authorization" :> (<<"H", "S", "2", "5", "6", " ">> \o b64encode(join(<<":">>, data)))

(***************************************************************************)
(* header_for_authentication, the clock reading time (in seconds) being    *)
(* the one it takes at line 66.                                            *)
(***************************************************************************)
header_for_authentication(request, time) ==
    LET url == urlsplit(request.url)
        timestamp == str(time * 1000)
        message == <<request.method, url.path>>
                   \o (IF url.query # <<>> THEN <<<<"?">>, url.query>> ELSE <<>>)
                   \o (IF request.data # <<>> THEN <<request.data>> ELSE <<>>)
                   \o <<timestamp>>
        signature == generate_signature(message)
        data == <<api_key, signature, timestamp>>
    IN  "Authorization" :> (<<"H", "S", "2", "5", "6", " ">> \o b64encode(join(<<":">>, data)))

\* as ws_authenticate, with the window left out of the signed message
ws_authenticate_TimestampOnly(time) ==
    LET timestamp == time * 1000
        sign == hmac_hexdigest(secret_key, str(timestamp))
    IN  [method |-> "login",
         params |-> [type |-> "HS256", api_key |-> api_key, timestamp |-> timestamp,
                     window |-> WINDOW, signature |-> sign]]

\* ws_authenticate, the clock reading time (in seconds) being the one of line 38
ws_authenticate(time) ==
    LET timestamp == time * 1000
        window == WINDOW
        message == str(timestamp) \o (IF window # 0 THEN str(window) ELSE <<>>)
        sign == hmac_hexdigest(secret_key, message)
    IN  [method |-> "login",
         params |-> [type |-> "HS256", api_key |-> api_key, timestamp |-> timestamp,
                     window |-> window, signature |-> sign]]

\* the dictionaries request.headers is drawn from; None behaves as the empty one
HeaderDicts == {<<>>, "Accept" :> <<"a">>}

\* d.update(e)
update(d, e) == [k \in DOMAIN d \cup DOMAIN e |-> IF k \in DOMAIN e THEN e[k] ELSE d[k]]

\* the url of a request for a path and a query
Url(path, query) == path \o (IF query # <<>> THEN <<"?">> \o query ELSE <<>>)

(***************************************************************************)
(* State.                                                                  *)
(***************************************************************************)
VARIABLES
    pc,             \* where the coroutine is suspended
    ws,             \* the local variable ws of listen_for_user_stream
    ws_assistant,   \* self._ws_assistant
    stream,         \* the handle's connection: "closed", "open", "ended" (closed by peer)
    pending,        \* the exception in flight while the finally block runs
    raised,         \* what listen_for_user_stream raised to its caller
    now,            \* the clock, self._time()
    last_ws_message_sent_timestamp,
    timeout,        \* seconds_until_next_ping given to the current wait_for
    armed_at,       \* when the current wait_for was entered
    sleep_left,     \* seconds until the current self._sleep returns
    last_recv_time, \* self._last_recv_time
    trading_pairs,  \* self._trading_pairs
    output,         \* the output queue: everything pushed so far
    sent,           \* the methods of the messages sent on the current connection
    auth_message,   \* the local variable auth_message of _authenticate_connection
    \* the signer's caller
    fields,         \* the method, path, query and body a REST request is made of
    request,        \* the REST request
    sign_time,      \* the clock reading rest_authenticate takes
    \* history
    cancelled,      \* a cancellation has been delivered
    everConnected,  \* some connect call has succeeded
    attempts,       \* connect calls issued (saturating)
    sleptSince,     \* reconnect delays slept since the last connect call (saturating)
    nframes,        \* frames received
    lastFrameTime,  \* when the most recent frame was received
    expected        \* the normalized elements of the routed frames, in arrival order

vars == <<pc, ws, ws_assistant, stream, pending, raised, now,
          last_ws_message_sent_timestamp, timeout, armed_at, sleep_left,
          last_recv_time, trading_pairs, output, sent, cancelled, everConnected,
          attempts, sleptSince, nframes, lastFrameTime, expected,
          auth_message, fields, request, sign_time>>

conn == <<ws, ws_assistant, stream>>
timer == <<last_ws_message_sent_timestamp, timeout, armed_at>>
router == <<output, nframes, lastFrameTime, expected>>
rest == <<fields, request, sign_time>>
config == <<trading_pairs, last_recv_time, rest>>
history == <<cancelled, everConnected, attempts, sleptSince>>

\* the data source as __init__ leaves it, listen_for_user_stream not yet started
ListenerInit ==
    /\ pc = "start"
    /\ ws = None
    /\ ws_assistant = None
    /\ stream = "closed"
    /\ pending = "none"
    /\ raised = "none"
    /\ now = StartTime
    /\ last_ws_message_sent_timestamp = 0
    /\ timeout = 0
    /\ armed_at = 0
    /\ sleep_left = 0
    /\ last_recv_time = INITIAL_LAST_RECV_TIME
    /\ trading_pairs = SubSeq(AllPairs, 1, Min(MaxPairs, Len(AllPairs)))
    /\ output = <<>>
    /\ sent = <<>>
    /\ cancelled = FALSE
    /\ everConnected = FALSE
    /\ attempts = 0
    /\ sleptSince = 0
    /\ nframes = 0
    /\ lastFrameTime = 0
    /\ expected = <<>>
    /\ auth_message = None

\* the request made entirely of the string "a", without headers
IdleFields == [method |-> <<"a">>, path |-> <<"a">>, query |-> <<"a">>, body |-> <<"a">>]

Init ==
    /\ ListenerInit
    /\ fields = IdleFields
    /\ request = [method |-> fields.method, url |-> Url(fields.path, fields.query),
                  data |-> fields.body, headers |-> <<>>]
    /\ sign_time = StartTime

\* as the finally block, without the disconnect
Finally_NoDisconnect(w) ==
    /\ pc' = "sleep"
    /\ sleep_left' = RECONNECT_DELAY

(***************************************************************************)
(* The finally block, entered with local handle w:                         *)
(*     ws and await ws.disconnect()                                        *)
(*     await self._sleep(5)                                                *)
(* It suspends in the disconnect when there is a handle, else in the       *)
(* sleep.                                                                  *)
(***************************************************************************)
Finally(w) ==
    IF w # None
    THEN /\ pc' = "disconnect"
         /\ sleep_left' = sleep_left
    ELSE /\ pc' = "sleep"
         /\ sleep_left' = RECONNECT_DELAY

(***************************************************************************)
(* except Exception: log, then the finally block.                          *)
(***************************************************************************)
OnException(w) ==
    /\ pending' = "none"
    /\ Finally(w)

(***************************************************************************)
(* except asyncio.CancelledError: raise, then the finally block.           *)
(***************************************************************************)
OnCancelled(w) ==
    /\ pending' = "cancelled"
    /\ Finally(w)

(***************************************************************************)
(* Lines 70-73: seconds_until_next_ping computed at time t with last       *)
(* outbound timestamp s, and wait_for entered.                             *)
(***************************************************************************)
Arm(t, s) ==
    /\ timeout' = HEARTBEAT_TIME_INTERVAL - (t - s)
    /\ armed_at' = t

(***************************************************************************)
(* Line 64: ws = await self._get_ws_assistant().  The assistant is created *)
(* by the factory on the first call and cached in self._ws_assistant.      *)
(* Line 65 then issues ws.connect and suspends.                            *)
(***************************************************************************)
\* as _get_ws_assistant, asking the factory for a new assistant at every call
get_ws_assistant_Fresh == IF ws = Handle THEN "ws2" ELSE Handle

get_ws_assistant == IF ws_assistant = None THEN Handle ELSE ws_assistant

GetWsOk ==
    /\ pc = "start"
    /\ ws_assistant' = get_ws_assistant
    /\ ws' = ws_assistant'
    /\ pc' = "connect"
    /\ attempts' = Min(attempts + 1, MaxAttempts)
    /\ sleptSince' = 0
    /\ UNCHANGED <<stream, pending, raised, now, timer, sleep_left, config, auth_message, router,
                   sent, cancelled, everConnected>>

\* the factory call of the first cycle raises: ws keeps its previous value
GetWsFail ==
    /\ pc = "start"
    /\ ws_assistant = None
    /\ OnException(ws)
    /\ UNCHANGED <<conn, raised, now, timer, config, auth_message, router, sent, history>>

\* as ConnectOk, with the inner loop entered without the login
ConnectOk_NoLogin ==
    /\ pc = "connect"
    /\ stream' = "open"
    /\ everConnected' = TRUE
    /\ sent' = <<>>
    /\ last_ws_message_sent_timestamp' = now
    /\ Arm(now, now)
    /\ pc' = "wait"
    /\ UNCHANGED <<ws, ws_assistant, pending, raised, now, sleep_left,
                   config, auth_message, router, cancelled, attempts, sleptSince>>

(***************************************************************************)
(* Line 65: await ws.connect(...) returns; line 66 builds the login        *)
(* message and suspends in ws.send.                                        *)
(***************************************************************************)
ConnectOk ==
    /\ pc = "connect"
    /\ stream' = "open"
    /\ everConnected' = TRUE
    /\ sent' = <<>>
    /\ pc' = "login"
    /\ auth_message' = ws_authenticate(now)
    /\ UNCHANGED <<ws, ws_assistant, pending, raised, now, timer, sleep_left,
                   config, router, cancelled, attempts, sleptSince>>

\* as ConnectFail, with the failure not caught by except Exception
ConnectFail_Uncaught ==
    /\ pc = "connect"
    /\ pc' = "done"
    /\ raised' = "error"
    /\ UNCHANGED <<conn, pending, now, timer, sleep_left, config, auth_message, router, sent, history>>

\* line 65 raises an exception other than CancelledError
ConnectFail ==
    /\ pc = "connect"
    /\ OnException(ws)
    /\ UNCHANGED <<conn, raised, now, timer, config, auth_message, router, sent, history>>

(***************************************************************************)
(* Lines 66-73: the login send returns, the last-outbound timestamp is set *)
(* and the inner loop enters wait_for for the first time.                  *)
(***************************************************************************)
LoginOk ==
    /\ pc = "login"
    /\ sent' = Append(sent, auth_message.method)
    /\ last_ws_message_sent_timestamp' = now
    /\ Arm(now, now)
    /\ pc' = "wait"
    /\ auth_message' = None
    /\ UNCHANGED <<conn, pending, raised, now, sleep_left, config, router, history>>

\* the login send raises an exception other than CancelledError
LoginFail ==
    /\ pc = "login"
    /\ OnException(ws)
    /\ auth_message' = None
    /\ UNCHANGED <<conn, raised, now, timer, config, router, sent, history>>

(***************************************************************************)
(* What the routed frames are to yield: the normalized elements of the     *)
(* params list of a spot_order, spot_orders or spot_balance frame, in list *)
(* order, leaving out the elements the normalizer rejects.                 *)
(***************************************************************************)
WellFormed(params) == SelectSeq(params, LAMBDA e : e \notin Malformed)

NormalizedElements(data) ==
    IF "method" \in DOMAIN data /\ "params" \in DOMAIN data
    THEN IF data.method \in {"spot_order", "spot_orders"}
         THEN [i \in 1..Len(WellFormed(data.params)) |->
                 convert_to_internal_order_format(WellFormed(data.params)[i])]
         ELSE IF data.method = "spot_balance"
              THEN [i \in 1..Len(WellFormed(data.params)) |->
                      convert_to_internal_balance_format(WellFormed(data.params)[i])]
              ELSE <<>>
    ELSE <<>>

(***************************************************************************)
(* Lines 98-108: iter_messages yields a frame and the loop body routes it. *)
(* wait_for runs the coroutine only when its timeout is positive.  An      *)
(* exception of the body leaves wait_for and reaches except Exception.     *)
(***************************************************************************)
RecvFrame(data) ==
    /\ pc = "wait"
    /\ stream = "open"
    /\ timeout > 0
    /\ nframes < MaxFrames
    /\ LET r == process_ws_message(data, output)
       IN  /\ output' = r.queue
           /\ IF r.ok
              THEN UNCHANGED <<pc, pending, sleep_left>>
              ELSE OnException(ws)
    /\ nframes' = nframes + 1
    /\ lastFrameTime' = now
    /\ expected' = expected \o NormalizedElements(data)
    /\ UNCHANGED <<conn, raised, now, timer, config, auth_message, sent, history>>

\* the peer closes the stream while the supervisor waits for frames
PeerClose ==
    /\ pc = "wait"
    /\ stream = "open"
    /\ stream' = "ended"
    /\ UNCHANGED <<pc, ws, ws_assistant, pending, raised, now, timer, sleep_left,
                   config, auth_message, router, sent, history>>

(***************************************************************************)
(* iter_messages finishes without raising, _process_ws_messages returns,   *)
(* wait_for returns, and the inner while True computes the next timeout    *)
(* (lines 70-72) and enters wait_for again.                                *)
(***************************************************************************)
ProcessReturns ==
    /\ pc = "wait"
    /\ stream = "ended"
    /\ timeout > 0
    /\ Arm(now, last_ws_message_sent_timestamp)
    /\ UNCHANGED <<pc, conn, pending, raised, now, last_ws_message_sent_timestamp,
                   sleep_left, config, auth_message, router, sent, history>>

\* as HeartbeatTimeout, with TimeoutError handled like any other exception
HeartbeatTimeout_Reconnects ==
    /\ pc = "wait"
    /\ now - armed_at >= timeout
    /\ OnException(ws)
    /\ UNCHANGED <<conn, raised, now, timer, config, auth_message, router, sent, history>>

(***************************************************************************)
(* Lines 76-78: wait_for raises TimeoutError; the handler stores the       *)
(* current time and the loop enters wait_for again.                        *)
(***************************************************************************)
HeartbeatTimeout ==
    /\ pc = "wait"
    /\ now - armed_at >= timeout
    /\ last_ws_message_sent_timestamp' = now
    /\ Arm(now, now)
    /\ UNCHANGED <<pc, conn, pending, raised, now, sleep_left, config, auth_message, router,
                   sent, history>>

\* as DisconnectOk, with the reconnect delay skipped
DisconnectOk_NoSleep ==
    /\ pc = "disconnect"
    /\ stream' = "closed"
    /\ pc' = "start"
    /\ UNCHANGED <<ws, ws_assistant, pending, raised, now, timer, sleep_left, config,
                   auth_message, router, sent, history>>

(***************************************************************************)
(* Line 85: ws.disconnect() returns, line 86 suspends in the sleep.        *)
(***************************************************************************)
DisconnectOk ==
    /\ pc = "disconnect"
    /\ stream' = "closed"
    /\ pc' = "sleep"
    /\ sleep_left' = RECONNECT_DELAY
    /\ UNCHANGED <<ws, ws_assistant, pending, raised, now, timer, config, auth_message, router,
                   sent, history>>

(***************************************************************************)
(* Line 85 raises: closing a handle that holds no connection is a no-op,   *)
(* closing a connection can fail.  Nothing encloses the finally block, so  *)
(* the exception leaves listen_for_user_stream, replacing the one in       *)
(* flight.                                                                 *)
(***************************************************************************)
DisconnectFail ==
    /\ pc = "disconnect"
    /\ stream # "closed"
    /\ pc' = "done"
    /\ raised' = "error"
    /\ pending' = "none"
    /\ UNCHANGED <<conn, now, timer, sleep_left, config, auth_message, router, sent, history>>

(***************************************************************************)
(* Line 86: the sleep has lasted RECONNECT_DELAY seconds and returns.  The *)
(* finally block ends: an exception in flight continues to the caller,     *)
(* otherwise the outer while True starts the next cycle.                   *)
(***************************************************************************)
SleepDone ==
    /\ pc = "sleep"
    /\ sleep_left = 0
    /\ sleptSince' = Min(sleptSince + 1, MaxAttempts)
    /\ IF pending = "cancelled"
       THEN /\ pc' = "done"
            /\ raised' = "cancelled"
       ELSE /\ pc' = "start"
            /\ raised' = raised
    /\ UNCHANGED <<conn, pending, now, timer, sleep_left, config, auth_message, router, sent,
                   cancelled, everConnected, attempts>>

(***************************************************************************)
(* The task is cancelled while suspended inside the try block (connect,    *)
(* login send, wait_for): CancelledError is re-raised by line 80 and the   *)
(* finally block runs.                                                     *)
(***************************************************************************)
CancelInTry ==
    /\ pc \in {"connect", "login", "wait"}
    /\ cancelled' = TRUE
    /\ OnCancelled(ws)
    /\ auth_message' = None
    /\ UNCHANGED <<conn, raised, now, timer, config, router, sent,
                   everConnected, attempts, sleptSince>>

(***************************************************************************)
(* The task is cancelled while suspended inside the finally block:         *)
(* CancelledError leaves listen_for_user_stream at once.  A disconnect     *)
(* that is interrupted may or may not have closed the connection.          *)
(***************************************************************************)
CancelInFinally ==
    /\ pc \in {"disconnect", "sleep"}
    /\ cancelled' = TRUE
    /\ pc' = "done"
    /\ raised' = "cancelled"
    /\ stream' \in (IF pc = "disconnect" THEN {stream, "closed"} ELSE {stream})
    /\ UNCHANGED <<ws, ws_assistant, pending, now, timer, sleep_left, config, auth_message,
                   router, sent, everConnected, attempts, sleptSince>>

(***************************************************************************)
(* Time passes while the coroutine is suspended.  The clock saturates at   *)
(* MaxTime; a running sleep counts down all the same.                      *)
(***************************************************************************)
Tick ==
    /\ pc \in {"connect", "login", "wait", "disconnect", "sleep"}
    /\ now' = Min(now + TickStep, MaxTime)
    /\ sleep_left' = IF pc = "sleep" THEN Max(sleep_left - TickStep, 0) ELSE sleep_left
    /\ UNCHANGED <<pc, conn, pending, raised, timer, config, auth_message, router, sent, history>>

Next ==
    \/ GetWsOk
    \/ GetWsFail
    \/ ConnectOk
    \/ ConnectFail
    \/ LoginOk
    \/ LoginFail
    \/ \E data \in Frames : RecvFrame(data)
    \/ PeerClose
    \/ ProcessReturns
    \/ HeartbeatTimeout
    \/ DisconnectOk
    \/ DisconnectFail
    \/ SleepDone
    \/ CancelInTry
    \/ CancelInFinally
    \/ Tick

Spec == Init /\ [][Next]_vars

(***************************************************************************)
(* The event loop resumes the coroutine whenever the operation it awaits   *)
(* has finished, the clock advances and timers fire; whether the peer      *)
(* sends or closes, and whether the caller cancels, is up to them.         *)
(***************************************************************************)
FairSpec ==
    /\ Spec
    /\ WF_vars(GetWsOk \/ GetWsFail)
    /\ WF_vars(ConnectOk \/ ConnectFail)
    /\ WF_vars(LoginOk \/ LoginFail)
    /\ WF_vars(ProcessReturns)
    /\ WF_vars(HeartbeatTimeout)
    /\ WF_vars(DisconnectOk \/ DisconnectFail)
    /\ WF_vars(SleepDone)
    /\ WF_vars(Tick)

(***************************************************************************)
(* The signer's caller: a REST request, made of any method, path, query    *)
(* and body, goes through rest_authenticate once.                          *)
(***************************************************************************)
listener == <<pc, conn, pending, raised, now, timer, sleep_left, trading_pairs,
              last_recv_time, router, sent, history, auth_message>>

\* the clock readings rest_authenticate may take
SignTimes == {StartTime, MaxTime}

SignInit ==
    /\ ListenerInit
    /\ fields \in [method : FieldValues, path : FieldValues,
                   query : FieldValues \cup {<<>>}, body : FieldValues \cup {<<>>}]
    /\ \E h \in HeaderDicts :
           request = [method |-> fields.method, url |-> Url(fields.path, fields.query),
                      data |-> fields.body, headers |-> h]
    /\ sign_time \in SignTimes

(***************************************************************************)
(* rest_authenticate: the request's headers, then the authentication       *)
(* header, are merged into a new dictionary that replaces request.headers. *)
(***************************************************************************)
rest_authenticate ==
    /\ "Authorization" \notin DOMAIN request.headers
    /\ request' = [request EXCEPT !.headers =
                       update(update(<<>>, request.headers),
                              header_for_authentication(request, sign_time))]
    /\ UNCHANGED <<listener, fields, sign_time>>

SignNext == rest_authenticate

SignSpec == SignInit /\ [][SignNext]_vars

(***************************************************************************)
(* Vocabulary of the properties below.                                     *)
(***************************************************************************)
\* the step that issues ws.connect
ConnectIssued == pc = "start" /\ pc' = "connect"

HandledMethods == {"spot_order", "spot_orders", "spot_balance"}

\* routed frames holding an element the normalizer rejects
FramesWithMalformed ==
    {data \in Frames :
        /\ "method" \in DOMAIN data
        /\ "params" \in DOMAIN data
        /\ data.method \in HandledMethods
        /\ \E i \in DOMAIN data.params : data.params[i] \in Malformed}

\* frames without a method field, or with a method that is not routed
IgnoredFrames ==
    {data \in Frames :
        "method" \in DOMAIN data => data.method \notin HandledMethods}

\* rest_authenticate has signed the request
Signed == "Authorization" \in DOMAIN request.headers

\* the parts of the signed message that reordering moves
Parts(f) == <<f.method, f.path, IF f.query # <<>> THEN <<"?">> \o f.query ELSE <<>>, f.body>>

\* the message the venue expects for a request made of f, as one string
CanonicalMessage(f, timestamp) == join(<<>>, Parts(f)) \o timestamp

\* the orders of the four parts other than the canonical one, as tuples
Reorderings ==
    LET orders == {p \in [1..4 -> 1..4] : \A i, j \in 1..4 : i # j => p[i] # p[j]}
    IN  {<<p[1], p[2], p[3], p[4]>> : p \in orders} \ {<<1, 2, 3, 4>>}

\* the message list with the four parts in the order p
Reordered(parts, p, timestamp) ==
    <<parts[p[1]], parts[p[2]], parts[p[3]], parts[p[4]], timestamp>>

\* the header value carrying a signature
AuthorizationOf(signature, timestamp) ==
    <<"H", "S", "2", "5", "6", " ">>
        \o b64encode(api_key \o <<":">> \o signature \o <<":">> \o timestamp)

PairwiseDistinctNonEmpty(f) ==
    /\ \A i \in 1..4 : Parts(f)[i] # <<>>
    /\ Cardinality({f.method, f.path, f.query, f.body}) = 4

\* a step in which connect, the login send or the routing of a frame fails
\* with an exception other than CancelledError
Failure ==
    \/ GetWsFail
    \/ ConnectFail
    \/ LoginFail
    \/ /\ pc = "wait"
       /\ nframes' # nframes
       /\ \E data \in Frames : ~process_ws_message(data, output).ok /\ RecvFrame(data)

\* connect, the login and one subscribe request per trading pair have been
\* completed in the current cycle, which has neither failed nor been cancelled
Subscribed ==
    /\ pc \in {"login", "wait"}
    /\ sent = <<"login">> \o subscribe_channels(trading_pairs)

\* a wait_for with the heartbeat timeout is pending
HeartbeatArmed == pc = "wait"

(***************************************************************************)
(* C1  Reconnect liveness.  While no connect call has succeeded and nobody *)
(* has cancelled, listen_for_user_stream does not end; every connect call  *)
(* but the first is issued after exactly one completed reconnect delay     *)
(* since the previous one; and, once a handle exists, connect calls keep   *)
(* being issued for ever unless one succeeds or the task is cancelled.     *)
(***************************************************************************)
C1_ReconnectLiveness ==
    /\ []((~everConnected /\ ~cancelled) => pc # "done")
    /\ [][(ConnectIssued /\ attempts >= 1) => sleptSince = 1]_vars
    /\ \/ []<>(pc = "connect")
       \/ <>everConnected
       \/ <>cancelled
       \/ <>[](ws_assistant = None)

\* a second connect call is in flight and none has succeeded yet
C1_Witness ==
    /\ pc = "connect"
    /\ attempts = 2
    /\ ~everConnected
    /\ ~cancelled

(***************************************************************************)
(* C2  A stream closed by the peer is recovered: the supervisor never      *)
(* stays for ever in the frame/heartbeat loop of a connection whose frame  *)
(* sequence has ended.                                                     *)
(***************************************************************************)
C2_PeerCloseRecovered == (pc = "wait" /\ stream = "ended") ~> (pc # "wait")

(***************************************************************************)
(* C3  Subscription per connection: when the frame/heartbeat loop is       *)
(* entered, the messages sent on the connection are the login followed by  *)
(* one spot_subscribe per configured trading pair.                         *)
(***************************************************************************)
C3_SubscribePerPair ==
    pc = "wait" => sent = <<"login">> \o subscribe_channels(trading_pairs)

(***************************************************************************)
(* C4  Cancellation is never swallowed: once a cancellation has been       *)
(* delivered the supervisor is only ever cleaning up or stopped (it issues *)
(* no connect and no login send), and when it stops it has raised the      *)
(* cancellation to its caller.                                             *)
(***************************************************************************)
C4_CancellationPropagates ==
    cancelled =>
        /\ pc \in {"disconnect", "sleep", "done"}
        /\ (pc = "done" => raised = "cancelled")

(***************************************************************************)
(* C5  Cancellation is immediate and leaves the handle closed: after a     *)
(* cancellation the supervisor does not wait out the reconnect delay, and  *)
(* when it has stopped the handle holds no connection.                     *)
(***************************************************************************)
C5_CancellationImmediate ==
    cancelled =>
        /\ pc \in {"disconnect", "done"}
        /\ (pc = "done" => stream = "closed")

(***************************************************************************)
(* C6  Malformed-element isolation: a spot_order, spot_orders or           *)
(* spot_balance frame with an element the normalizer rejects still pushes  *)
(* every other element, and the supervisor keeps waiting on the same       *)
(* connection.                                                             *)
(***************************************************************************)
C6_MalformedElementIsolation ==
    [][\A data \in FramesWithMalformed :
          RecvFrame(data) =>
              /\ output' = output \o NormalizedElements(data)
              /\ pc' = "wait"
              /\ stream' = stream]_vars

(***************************************************************************)
(* C7  Ordered, complete dispatch: the output queue holds exactly the      *)
(* normalized elements of the routed frames, frame by frame in arrival     *)
(* order and element by element in list order.                             *)
(***************************************************************************)
C7_OrderedCompleteDispatch == output = expected

(***************************************************************************)
(* C8  Ignored frames are harmless: a frame without a method field, or     *)
(* with a method other than spot_order, spot_orders and spot_balance       *)
(* (with or without params), pushes nothing and the supervisor keeps       *)
(* waiting on the same connection.                                         *)
(***************************************************************************)
C8_IgnoredFramesHarmless ==
    [][\A data \in IgnoredFrames :
          RecvFrame(data) =>
              /\ output' = output
              /\ pc' = "wait"
              /\ stream' = stream]_vars

(***************************************************************************)
(* C9  Heartbeat expiry never disconnects: the expiry stores the current   *)
(* time as the last-outbound timestamp and the supervisor keeps waiting on *)
(* the same connection; nothing is disconnected, slept, connected or sent, *)
(* and the output queue is untouched.                                      *)
(***************************************************************************)
C9_HeartbeatExpiryKeepsConnection ==
    [][HeartbeatTimeout =>
          /\ last_ws_message_sent_timestamp' = now
          /\ pc' = "wait"
          /\ <<ws, ws_assistant, stream>>' = <<ws, ws_assistant, stream>>
          /\ sent' = sent
          /\ attempts' = attempts
          /\ sleptSince' = sleptSince
          /\ output' = output]_vars

\* the only login of the run precedes the last frame, and the timestamp is later
\* than that frame: a heartbeat has expired on the live connection since
C9_Witness ==
    /\ pc = "wait"
    /\ stream = "open"
    /\ attempts = 1
    /\ nframes > 0
    /\ output # <<>>
    /\ last_ws_message_sent_timestamp > lastFrameTime

(***************************************************************************)
(* C10  last_recv_time: once a frame has been received, last_recv_time()   *)
(* is the time the most recent frame was received, later than its initial  *)
(* value.                                                                  *)
(***************************************************************************)
C10_LastRecvTime ==
    nframes > 0 =>
        /\ last_recv_time = lastFrameTime
        /\ last_recv_time > INITIAL_LAST_RECV_TIME

(***************************************************************************)
(* C11 REST signing.  The header value rest_authenticate attaches is       *)
(* "HS256 " followed by base64(api_key ":" signature ":" timestamp), the   *)
(* signature being HMAC-SHA256 under the secret key of method, path,       *)
(* "?" and query (only when the query is not empty), body (only when it is *)
(* not empty) and the millisecond timestamp, concatenated in this order;   *)
(* the timestamp in the header is the one that was signed.                 *)
(***************************************************************************)
C11_RestSigning ==
    Signed =>
        LET timestamp == str(sign_time * 1000)
            message == fields.method \o fields.path
                       \o (IF fields.query # <<>> THEN <<"?">> \o fields.query ELSE <<>>)
                       \o (IF fields.body # <<>> THEN fields.body ELSE <<>>)
                       \o timestamp
        IN  request.headers["Authorization"] =
                <<"H", "S", "2", "5", "6", " ">>
                    \o b64encode(api_key \o <<":">> \o hmac_hexdigest(secret_key, message)
                                 \o <<":">> \o timestamp)

\* a signed request with a query, a body and a header of its own
C11_Witness ==
    /\ Signed
    /\ fields.query # <<>>
    /\ fields.body # <<>>
    /\ "Accept" \in DOMAIN request.headers
    /\ sign_time = MaxTime

(***************************************************************************)
(* C12 Login signing.  The login message awaiting its send has method      *)
(* "login", type "HS256", the api key, the window 10000 and as signature   *)
(* the HMAC-SHA256 under the secret key of the decimal timestamp followed  *)
(* by the decimal window, both being the ones in the payload; and every    *)
(* step that starts a login builds the message anew, its timestamp being   *)
(* the clock reading of that step in milliseconds.                         *)
(***************************************************************************)
C12_LoginSigning ==
    /\ [](pc = "login" =>
            LET params == auth_message.params
            IN  /\ auth_message.method = "login"
                /\ DOMAIN params = {"type", "api_key", "timestamp", "window", "signature"}
                /\ params.type = "HS256"
                /\ params.api_key = api_key
                /\ params.window = 10000
                /\ params.signature =
                       hmac_hexdigest(secret_key, str(params.timestamp) \o str(params.window)))
    /\ [][(pc # "login" /\ pc' = "login") =>
              auth_message'.params.timestamp = now' * 1000]_vars

\* the login of a second connection, built later than the first
C12_Witness ==
    /\ pc = "login"
    /\ attempts = 2
    /\ everConnected
    /\ auth_message.params.timestamp > StartTime * 1000
    /\ now * 1000 > auth_message.params.timestamp

C15_LoginPrecedesRouting ==
    /\ [][(pc = "connect" /\ stream' = "open") => pc' = "login" /\ sent' = <<>>]_vars
    /\ [][(pc # "login" /\ pc' = "login") => pc = "connect" /\ stream' = "open"]_vars
    /\ [][(sent' # sent /\ sent' # <<>>) =>
              pc = "login" /\ sent = <<>> /\ sent' = <<"login">> /\ pc' = "wait"]_vars
    /\ [][nframes' # nframes => pc = "wait" /\ sent = <<"login">>]_vars
    /\ [](pc = "wait" => Len(SelectSeq(sent, LAMBDA m : m = "login")) = 1)

\* frames routed on the second connection, after its login
C15_Witness ==
    /\ pc = "wait"
    /\ attempts = 2
    /\ sent = <<"login">>
    /\ nframes > 0
    /\ lastFrameTime >= last_ws_message_sent_timestamp
    /\ last_ws_message_sent_timestamp > StartTime

(***************************************************************************)
(* C16 Heartbeat-armed invariant.  The heartbeat timer is armed if and     *)
(* only if the connection is Subscribed: connect, login and the subscribe  *)
(* request of every trading pair are done, and the cycle has neither       *)
(* failed nor been cancelled.                                              *)
(***************************************************************************)
C16_HeartbeatArmedIffSubscribed == HeartbeatArmed <=> Subscribed

(***************************************************************************)
(* C17 Relative heartbeat deadline.  Whenever the race between frame       *)
(* processing and the heartbeat is armed (after the login, after an        *)
(* expiry, after frame processing has returned), its timeout is a full     *)
(* heartbeat interval counted from the moment of arming, not what is left  *)
(* of an earlier deadline.                                                 *)
(***************************************************************************)
C17_RelativeHeartbeatDeadline ==
    pc = "wait" => timeout = HEARTBEAT_TIME_INTERVAL /\ armed_at <= now

(***************************************************************************)
(* C18 At most one live connection.  Whenever a cycle is about to ask for  *)
(* the handle or has a connect in progress, the connection of the cycle    *)
(* before is closed: connect is never invoked on an open connection.       *)
(***************************************************************************)
C18_AtMostOneLiveConnection ==
    /\ [](pc \in {"start", "connect"} => stream = "closed")
    /\ [][stream' = "open" => stream \in {"closed", "open"} /\ (stream = "closed" => pc = "connect")]_vars

\* a connect in progress after an earlier connection that delivered events
C18_Witness ==
    /\ pc = "connect"
    /\ everConnected
    /\ output # <<>>
    /\ stream = "closed"

(***************************************************************************)
(* C19 Field-order sensitivity, as claimed: for pairwise distinct,         *)
(* non-empty method, path, query and body, the signature of the message    *)
(* with these parts in any other order differs from the signature          *)
(* rest_authenticate has computed (same secret key, same timestamp).       *)
(***************************************************************************)
C19_FieldOrderSensitivity ==
    (Signed /\ PairwiseDistinctNonEmpty(fields)) =>
        LET timestamp == str(sign_time * 1000)
            parts == Parts(fields)
            header == request.headers["Authorization"]
        IN  \A p \in Reorderings :
                AuthorizationOf(generate_signature(Reordered(parts, p, timestamp)), timestamp)
                    # header

(***************************************************************************)
(* C19 as the code has it: the parts are concatenated without delimiters,  *)
(* so another order of the parts changes the signature exactly when it     *)
(* changes the concatenated message; parts that read the same in both      *)
(* orders (such as "a" and "aa") are signed alike.                         *)
(***************************************************************************)
C19_OrderSensitiveUpToConcatenation ==
    Signed =>
        LET timestamp == str(sign_time * 1000)
            parts == Parts(fields)
            canonical == CanonicalMessage(fields, timestamp)
            header == request.headers["Authorization"]
        IN  \A p \in Reorderings :
                LET message == Reordered(parts, p, timestamp)
                IN  (AuthorizationOf(generate_signature(message), timestamp) # header)
                    <=> (join(<<>>, message) # canonical)

\* a signed request of four distinct non-empty parts, one reordering of which
\* changes the message while another one does not
C19_Witness ==
    /\ Signed
    /\ PairwiseDistinctNonEmpty(fields)
    /\ LET timestamp == str(sign_time * 1000)
           parts == Parts(fields)
           canonical == CanonicalMessage(fields, timestamp)
       IN  /\ \E p \in Reorderings : join(<<>>, Reordered(parts, p, timestamp)) # canonical
           /\ \E p \in Reorderings : join(<<>>, Reordered(parts, p, timestamp)) = canonical

(***************************************************************************)
(* C20 Cleanup failure does not stop the supervisor.  A close of the       *)
(* handle that fails, in the cleanup, with an error other than a           *)
(* cancellation is followed by the sleep of the reconnect delay and a new  *)
(* cycle: no error escapes the supervisor, which ends only when it is      *)
(* cancelled.                                                              *)
(***************************************************************************)
C20_CleanupFailureSurvived ==
    /\ raised # "error"
    /\ pc = "done" => cancelled

====
